---- MODULE Spec2Model ----
(***************************************************************************)
(* A model of calculator.py: the WSGI handler `application`, the path      *)
(* resolver `resolve_path`, the four arithmetic functions and              *)
(* `out_format`, together with the module's start-up block.                *)
(*                                                                         *)
(* Python strings are TLA+ strings (sequences of characters): Len, \o,     *)
(* SubSeq, Head and Tail apply to them.  A Python float is modelled by the *)
(* decimal number it holds, [neg, m, e] standing for (-1)^neg * m * 10^e   *)
(* with m not divisible by 10 (zero is m = 0, e = 0 and keeps its sign).   *)
(* The operands that are drawn below are integers and halves of small      *)
(* magnitude, and the quotients they form terminate: on these IEEE-754     *)
(* double arithmetic yields the double nearest to the exact decimal        *)
(* result, whose repr() is that decimal.  inf and nan need operands of     *)
(* more than 300 digits and are outside the operands drawn.                *)
(***************************************************************************)
EXTENDS Integers, Sequences, FiniteSets, TLC

\* Longest sequence of prefix tokens put in front of the operation token.
MaxPrefix == 1
\* Most characters that follow the second operand.
MaxTrail == 1
\* Invocations of application that the threaded listener runs side by side.
MaxThreads == 2

-----------------------------------------------------------------------------
(* Characters and strings *)

At(s, i) == SubSeq(s, i, i)

Digit == {"0", "1", "2", "3", "4", "5", "6", "7", "8", "9"}

DigitValue(c) ==
    CASE c = "0" -> 0 [] c = "1" -> 1 [] c = "2" -> 2 [] c = "3" -> 3
      [] c = "4" -> 4 [] c = "5" -> 5 [] c = "6" -> 6 [] c = "7" -> 7
      [] c = "8" -> 8 [] c = "9" -> 9

DigitChar(d) == At("0123456789", d + 1)

AllDigits(s) == \A i \in 1..Len(s) : At(s, i) \in Digit

StartsWithAt(s, k, t) ==
    /\ k + Len(t) - 1 <= Len(s)
    /\ SubSeq(s, k, k + Len(t) - 1) = t

EndsWith(s, t) == Len(s) >= Len(t) /\ SubSeq(s, Len(s) - Len(t) + 1, Len(s)) = t

Contains(s, t) == \E k \in 1..(Len(s) + 1) : StartsWithAt(s, k, t)

RECURSIVE Repeat(_, _)
Repeat(c, n) == IF n <= 0 THEN "" ELSE c \o Repeat(c, n - 1)

\* The printable ASCII characters in code order: U+0020 .. U+005F and
\* U+0061 .. U+007E (U+0060, the grave accent, occurs in no string here).
AsciiLow ==
    " !\"#$%&'()*+,-./0123456789:;<=>?@ABCDEFGHIJKLMNOPQRSTUVWXYZ[\\]^_"

AsciiHigh == "abcdefghijklmnopqrstuvwxyz{|}~"

\* The code of each ASCII character that occurs in a string here.
AsciiCode ==
    [c \in {"\n"} \cup {At(AsciiLow, k) : k \in 1..Len(AsciiLow)}
               \cup {At(AsciiHigh, k) : k \in 1..Len(AsciiHigh)} |->
        IF c = "\n" THEN 10
        ELSE IF \E k \in 1..Len(AsciiLow) : At(AsciiLow, k) = c
        THEN 31 + (CHOOSE k \in 1..Len(AsciiLow) : At(AsciiLow, k) = c)
        ELSE 96 + (CHOOSE k \in 1..Len(AsciiHigh) : At(AsciiHigh, k) = c)]

ord(c) == AsciiCode[c]

\* str.encode('utf8'): one byte per ASCII character, the character's code.
encode_utf8(s) == [k \in 1..Len(s) |-> ord(At(s, k))]

\* str(n) of an int n >= 0.
RECURSIVE str_int(_)
str_int(n) ==
    IF n < 10 THEN DigitChar(n) ELSE str_int(n \div 10) \o DigitChar(n % 10)

\* str.lstrip("/"): every leading slash is removed.
RECURSIVE lstrip_slash(_)
lstrip_slash(s) ==
    IF s /= "" /\ Head(s) = "/" THEN lstrip_slash(Tail(s)) ELSE s

-----------------------------------------------------------------------------
(* Floats *)

RECURSIVE Pow10(_)
Pow10(n) == IF n <= 0 THEN 1 ELSE 10 * Pow10(n - 1)

\* [m, e] with the factors of ten moved from m to e.
RECURSIVE StripTens(_, _)
StripTens(m, e) ==
    IF m = 0 THEN [m |-> 0, e |-> 0]
    ELSE IF m % 10 = 0 THEN StripTens(m \div 10, e + 1)
    ELSE [m |-> m, e |-> e]

MkFloat(neg, m, e) ==
    LET n == StripTens(m, e) IN [neg |-> neg, m |-> n.m, e |-> n.e]

\* The digits of s as a number, read after its trailing zeros are dropped
\* (they are counted in `zeros`), so that 10000000000 is 1 * 10^10.
RECURSIVE TrimZeros(_)
TrimZeros(s) ==
    IF s /= "" /\ At(s, Len(s)) = "0"
    THEN LET r == TrimZeros(SubSeq(s, 1, Len(s) - 1))
         IN  [digits |-> r.digits, zeros |-> r.zeros + 1]
    ELSE [digits |-> s, zeros |-> 0]

RECURSIVE DigitsValue(_)
DigitsValue(s) ==
    IF s = "" THEN 0
    ELSE 10 * DigitsValue(SubSeq(s, 1, Len(s) - 1)) + DigitValue(At(s, Len(s)))

\* float(s) for a string of sign, digit and dot characters, which is all a
\* captured operand can hold: [sign] digits [. [digits]] or [sign] . digits
\* is converted, anything else (no digit at all, a second sign or dot)
\* raises ValueError.
float(s) ==
    LET signed == s /= "" /\ Head(s) \in {"+", "-"}
        neg    == s /= "" /\ Head(s) = "-"
        u      == IF signed THEN Tail(s) ELSE s
        dots   == {k \in 1..Len(u) : At(u, k) = "."}
        dot    == IF dots = {} THEN Len(u) + 1 ELSE CHOOSE k \in dots : TRUE
        ip     == SubSeq(u, 1, dot - 1)
        fp     == SubSeq(u, dot + 1, Len(u))
        ok     == /\ Cardinality(dots) <= 1
                  /\ AllDigits(ip) /\ AllDigits(fp)
                  /\ Len(ip) + Len(fp) >= 1
        t      == TrimZeros(ip \o fp)
    IN  IF ok
        THEN [exc |-> "none",
              val |-> MkFloat(neg, DigitsValue(t.digits), t.zeros - Len(fp))]
        ELSE [exc |-> "ValueError", val |-> MkFloat(FALSE, 0, 0)]

IsZero(v) == v.m = 0

Signed(v) == IF v.neg THEN 0 - v.m ELSE v.m

\* v1 + v2.  A zero sum is -0.0 only when both operands are -0.0.
FloatAdd(v1, v2) ==
    LET e0 == IF v1.e <= v2.e THEN v1.e ELSE v2.e
        a  == Signed(v1) * Pow10(v1.e - e0)
        b  == Signed(v2) * Pow10(v2.e - e0)
        s  == a + b
    IN  IF IsZero(v1) /\ IsZero(v2) THEN MkFloat(v1.neg /\ v2.neg, 0, 0)
        ELSE IF IsZero(v1) THEN v2
        ELSE IF IsZero(v2) THEN v1
        ELSE IF s = 0 THEN MkFloat(FALSE, 0, 0)
        ELSE IF s < 0 THEN MkFloat(TRUE, 0 - s, e0)
        ELSE MkFloat(FALSE, s, e0)

FloatNeg(v) == [v EXCEPT !.neg = ~v.neg]

FloatSub(v1, v2) == FloatAdd(v1, FloatNeg(v2))

FloatMul(v1, v2) == MkFloat(v1.neg /= v2.neg, v1.m * v2.m, v1.e + v2.e)

\* v1 / v2 for v2 /= 0, a quotient that terminates within MaxShift digits.
MaxShift == 12

FloatDiv(v1, v2) ==
    LET k == CHOOSE j \in 0..MaxShift :
                 /\ (v1.m * Pow10(j)) % v2.m = 0
                 /\ \A h \in 0..(j - 1) : (v1.m * Pow10(h)) % v2.m /= 0
    IN  MkFloat(v1.neg /= v2.neg, (v1.m * Pow10(k)) \div v2.m, v1.e - v2.e - k)

\* str(x) of a float: repr's shortest digits, in fixed notation while the
\* decimal point falls within (-4, 16], else in exponent notation.
str_float(v) ==
    LET sign  == IF v.neg THEN "-" ELSE ""
        D     == str_int(v.m)
        nd    == Len(D)
        decpt == nd + v.e
        x     == decpt - 1
        xs    == IF x < 0 THEN 0 - x ELSE x
    IN  IF v.m = 0 THEN sign \o "0.0"
        ELSE IF decpt > -4 /\ decpt <= 16
        THEN IF decpt <= 0 THEN sign \o "0." \o Repeat("0", 0 - decpt) \o D
             ELSE IF decpt >= nd
             THEN sign \o D \o Repeat("0", decpt - nd) \o ".0"
             ELSE sign \o SubSeq(D, 1, decpt) \o "." \o SubSeq(D, decpt + 1, nd)
        ELSE sign \o At(D, 1)
               \o (IF nd > 1 THEN "." \o SubSeq(D, 2, nd) ELSE "")
               \o "e" \o (IF x < 0 THEN "-" ELSE "+")
               \o (IF xs < 10 THEN "0" ELSE "") \o str_int(xs)

-----------------------------------------------------------------------------
(* out_format and the four operations *)

\* The matches of the regular expression .0$ in s: a character other than
\* a line break, then "0", then the end of s or the line break that ends
\* s.  A match starts at Len(s) - 1 or, before a final line break, at
\* Len(s) - 2.
DotZeroMatches(s) ==
    {k \in 1..(Len(s) - 1) :
        /\ At(s, k) /= "\n"
        /\ At(s, k + 1) = "0"
        /\ \/ k + 1 = Len(s)
           \/ k + 2 = Len(s) /\ At(s, Len(s)) = "\n"}

\* re.sub(r'.0$', '', s): the two matched characters are removed.
re_sub_dot_zero(s) ==
    IF DotZeroMatches(s) = {} THEN s
    ELSE LET k == CHOOSE j \in DotZeroMatches(s) :
                      \A h \in DotZeroMatches(s) : j <= h
         IN  SubSeq(s, 1, k - 1) \o SubSeq(s, k + 2, Len(s))

out_format(arg) == re_sub_dot_zero(str_float(arg))

\* Each operation returns [exc, value]: the exception it raises, if any,
\* and the string it returns.
Returned(text) == [exc |-> "none", value |-> text]

Raised(e) == [exc |-> e, value |-> ""]

add(v1, v2) == Returned(out_format(FloatAdd(v1, v2)))

\* subtract with its operands taken in the other order.
subtract_swapped(v1, v2) == Returned(out_format(FloatSub(v2, v1)))

subtract(v1, v2) == Returned(out_format(FloatSub(v1, v2)))

multiply(v1, v2) == Returned(out_format(FloatMul(v1, v2)))

divide(v1, v2) ==
    IF IsZero(v2) THEN Raised("ZeroDivisionError")
    ELSE Returned(out_format(FloatDiv(v1, v2)))

-----------------------------------------------------------------------------
(* resolve_path *)

\* A pattern that admits a name the dictionary of functions lacks.
PatternActionsWide == <<"add", "subtract", "divide", "multiply", "modulo">>

\* The alternatives of the pattern's first group, in the pattern's order.
PatternActions == <<"add", "subtract", "divide", "multiply">>

\* s matches [-+]?\d*\.\d+|[-+]?\d* from its first to its last character.
MatchesNumber(s) ==
    LET u == IF s /= "" /\ Head(s) \in {"+", "-"} THEN Tail(s) ELSE s
    IN  \/ AllDigits(u)
        \/ \E d \in 1..Len(u) :
              /\ At(u, d) = "."
              /\ AllDigits(SubSeq(u, 1, d - 1))
              /\ d < Len(u)
              /\ AllDigits(SubSeq(u, d + 1, Len(u)))

\* $ matches at position c (the character after the match): the end of s,
\* or the line break that is the last character of s.
AtEnd(s, c) == c = Len(s) + 1 \/ (c = Len(s) /\ At(s, c) = "\n")

\* The ways the pattern matches s from position k on: [a, b, c] where the
\* action is PatternActions[a], the first number ends before the slash at
\* b and the second before c.  The numbers hold no slash and no line
\* break, so there is at most one way.
PatternMatchesAt(s, k) ==
    UNION {
      LET n1 == k + Len(PatternActions[a]) + 1
      IN  UNION {
            {[a |-> a, b |-> b, c |-> c] :
                c \in {x \in (b + 1)..(Len(s) + 1) :
                          /\ AtEnd(s, x)
                          /\ MatchesNumber(SubSeq(s, b + 1, x - 1))}} :
            b \in {y \in n1..Len(s) :
                      /\ At(s, y) = "/"
                      /\ MatchesNumber(SubSeq(s, n1, y - 1))}} :
      a \in {x \in DOMAIN PatternActions :
                StartsWithAt(s, k, PatternActions[x] \o "/")}}

\* re.match in place of re.search: the match is tried at the start only.
MatchPositions(s) == {1}

\* The positions of s that re.search tries: every one, left to right.
SearchPositions(s) == 1..(Len(s) + 1)

\* re.search(pattern, s): the match at the leftmost position that has
\* one, as [found, groups].
NoGroups == <<"", "", "">>

LeftmostOf(starts) == CHOOSE j \in starts : \A h \in starts : j <= h

GroupsOf(s, k, m) ==
    <<PatternActions[m.a],
      SubSeq(s, k + Len(PatternActions[m.a]) + 1, m.b - 1),
      SubSeq(s, m.b + 1, m.c - 1)>>

MatchFrom(s, k) ==
    [found  |-> TRUE,
     groups |-> GroupsOf(s, k, CHOOSE x \in PatternMatchesAt(s, k) : TRUE)]

SearchFrom(s, starts) ==
    IF starts = {} THEN [found |-> FALSE, groups |-> NoGroups]
    ELSE MatchFrom(s, LeftmostOf(starts))

re_search(s) ==
    SearchFrom(s, {k \in SearchPositions(s) : PatternMatchesAt(s, k) /= {}})

\* The dictionary of resolve_path: action name to function; .get yields
\* None for a name that is no key.
FuncTable == {"add", "subtract", "divide", "multiply"}

FuncGet(action) == IF action \in FuncTable THEN action ELSE "None"

NoFloat == MkFloat(FALSE, 0, 0)

ResolveFailed(e, groups) ==
    [exc |-> e, matches |-> groups, func |-> "None", args |-> <<NoFloat, NoFloat>>]

\* args = [ float(v1), float(v2) ] and the lookup of the function.
ResolveArgs(groups, f1, f2) ==
    IF f1.exc /= "none" THEN ResolveFailed(f1.exc, groups)
    ELSE IF f2.exc /= "none" THEN ResolveFailed(f2.exc, groups)
    ELSE [exc     |-> "none",
          matches |-> groups,
          func    |-> FuncGet(groups[1]),
          args    |-> <<f1.val, f2.val>>]

\* .groups() of the search: AttributeError when nothing matched.
ResolveMatch(found) ==
    IF ~found.found THEN ResolveFailed("AttributeError", NoGroups)
    ELSE ResolveArgs(found.groups, float(found.groups[2]), float(found.groups[3]))

\* resolve_path(path), path given as [bound, text] (bound FALSE: None,
\* whose lstrip raises AttributeError).  [exc, matches, func, args]: the
\* exception raised, if any, the groups that were printed, and the values
\* returned.
resolve_path(path) ==
    IF ~path.bound THEN ResolveFailed("AttributeError", NoGroups)
    ELSE ResolveMatch(re_search(lstrip_slash(path.text)))

\* func(*args): the call of the function resolve_path returned.
Call(func, args) ==
    CASE func = "add"      -> add(args[1], args[2])
      [] func = "subtract" -> subtract(args[1], args[2])
      [] func = "multiply" -> multiply(args[1], args[2])
      [] func = "divide"   -> divide(args[1], args[2])
      [] OTHER             -> Raised("TypeError")

-----------------------------------------------------------------------------
(* Requests *)

Threads == 1..MaxThreads

\* A Python name that may be unbound (or None): [bound, text].
Unbound == [bound |-> FALSE, text |-> ""]

Bound(t) == [bound |-> TRUE, text |-> t]

Ops == {"add", "subtract", "multiply", "divide"}

\* Strings put where the operation token goes.
OpTokens == Ops \cup {"Add", "adds", "modulo"}

\* Strings put where an operand goes: numbers, then strings that are none.
NumberOperands ==
    {"0", "-0", ".0", "+0", "0.0", "5", "2.5", "-2", "+10", "0.25", "100"}

OtherOperands == {"", "+", "-", "foo", "3.", "1e5"}

Operands == NumberOperands \cup OtherOperands

\* Strings that at most MaxPrefix of go in front of the operation token,
\* and characters that at most MaxTrail of follow the second operand.
PrefixTokens == {"/", "/foo/", "/x"}

TrailChars == {"/", "x", "\n"}

\* The operands that are put behind every prefix and before every trail.
FewOperands == {"5", "-2", ".0", "+"}

\* The concatenations of at most n strings of `tokens`.
RECURSIVE Concats(_, _)
Concats(tokens, n) ==
    IF n = 0 THEN {""}
    ELSE LET shorter == Concats(tokens, n - 1)
         IN  shorter \cup {p \o t : p \in shorter, t \in tokens}

\* A request whose path is put together from parts:
\* prefix op / v1 / v2 trail.
Shaped(prefix, op, v1, v2, trail) ==
    [path   |-> Bound(prefix \o op \o "/" \o v1 \o "/" \o v2 \o trail),
     shaped |-> TRUE,
     prefix |-> prefix, op |-> op, v1 |-> v1, v2 |-> v2, trail |-> trail]

\* A request with the path as given (Unbound: environ holds no PATH_INFO).
Raw(path) ==
    [path   |-> path,
     shaped |-> FALSE,
     prefix |-> "", op |-> "", v1 |-> "", v2 |-> "", trail |-> ""]

\* Every operation token with every pair of operands, as /op/v1/v2.
PlainRequests ==
    {Shaped("/", o, a, b, "") : o \in OpTokens, a \in Operands, b \in Operands}

\* Every prefix and every trail around every operation token.
FramedRequests ==
    {Shaped(p, o, a, b, t) :
        p \in Concats(PrefixTokens, MaxPrefix), o \in OpTokens,
        a \in FewOperands, b \in FewOperands,
        t \in Concats(TrailChars, MaxTrail)}

ShapedRequests == PlainRequests \cup FramedRequests

\* The requests of the docstring of resolve_path, and requests with
\* operands of other forms and magnitudes.
ExampleRequests ==
    {Shaped("/", "multiply", "3", "5", ""),
     Shaped("/", "add", "23", "42", ""),
     Shaped("/", "subtract", "23", "42", ""),
     Shaped("/", "divide", "22", "11", ""),
     Shaped("/", "divide", "6", "0", ""),
     Shaped("/", "divide", "6", "+0", ""),
     Shaped("/", "divide", "6", "0.0", ""),
     Shaped("/", "add", "+10", "0.25", ""),
     Shaped("/", "multiply", "100000", "100000", ""),
     Shaped("/", "multiply", "10000000000", "10000000000", ""),
     Shaped("/", "divide", "1", "10000", ""),
     Shaped("/", "divide", "1", "100000", ""),
     Shaped("/", "divide", "1", "10000000000", ""),
     Shaped("/", "multiply", "12345678", "100000000", ""),
     Shaped("/", "multiply", "123456789", "100000000", ""),
     Shaped("/add/1/", "add", "5", "5", ""),
     Shaped("/", "add", "5", "5", " "),
     Shaped("/", "divide", "5", "0", "\n")}

RawRequests ==
    {Raw(Unbound), Raw(Bound("")), Raw(Bound("/")), Raw(Bound("/foobar")),
     Raw(Bound("/add/onlyone")), Raw(Bound("/add/foo/3")),
     Raw(Bound("/add/3/5/7")), Raw(Bound("add/3/5"))}

Requests == ShapedRequests \cup ExampleRequests \cup RawRequests

\* The requests that are served side by side.
ThreadedRequests ==
    {Shaped("/", "add", "5", "2.5", ""),
     Shaped("/foo/", "divide", "5", "-2", ""),
     Shaped("/", "divide", "5", ".0", ""),
     Shaped("/", "multiply", "10000000000", "10000000000", ""),
     Raw(Bound("/")), Raw(Unbound)}

-----------------------------------------------------------------------------
(* The program *)

VARIABLES
    phase,     \* "loaded": the module is defined; "serving": requests arrive
    listener,  \* "serial" (wsgiref's simple_server) or "threaded"
    my_url,    \* the module global my_url, unbound until __main__ sets it
    pc,        \* per invocation of application: where it is
    request,   \* per invocation: the request it serves (environ)
    headers,   \* per invocation: the local list headers
    status,    \* per invocation: the local status
    body,      \* per invocation: the local body
    exc,       \* per invocation: the exception in flight, or "none"
    outcome,   \* per invocation: the block that set status
    stdout,    \* per invocation: the line it printed
    calls,     \* per invocation: the calls of start_response it made
    result     \* per invocation: what it returned

vars == <<phase, listener, my_url, pc, request, headers, status, body, exc,
          outcome, stdout, calls, result>>

NotPrinted == [bound |-> FALSE, path |-> "", matches |-> NoGroups]

NotReturned == [bound |-> FALSE, chunks |-> <<>>]

InitWith(l) ==
    /\ phase = "loaded"
    /\ listener = l
    /\ my_url = Unbound
    /\ pc = [i \in Threads |-> "idle"]
    /\ request = [i \in Threads |-> Raw(Unbound)]
    /\ headers = [i \in Threads |-> <<>>]
    /\ status = [i \in Threads |-> Unbound]
    /\ body = [i \in Threads |-> Unbound]
    /\ exc = [i \in Threads |-> "none"]
    /\ outcome = [i \in Threads |-> "none"]
    /\ stdout = [i \in Threads |-> NotPrinted]
    /\ calls = [i \in Threads |-> <<>>]
    /\ result = [i \in Threads |-> NotReturned]

Init == InitWith("serial")

InitThreaded == InitWith("threaded")

\* The invocations the listener runs: wsgiref's simple_server serves one
\* request at a time.
Workers == IF listener = "serial" THEN {1} ELSE Threads

Served == IF listener = "serial" THEN Requests ELSE ThreadedRequests

\* The values of the environment variable PORT, and the address the
\* socket reports.
DefaultPort == 8080

PortEnv == {Unbound, Bound("5000")}

port(env) == IF env.bound THEN float(env.text).val.m * Pow10(float(env.text).val.e)
             ELSE DefaultPort

my_ip == "10.0.0.5"

\* __main__: my_url is set, then the server is made and serves.
Main(env) ==
    /\ phase = "loaded"
    /\ my_url' = Bound("http://" \o my_ip \o ":" \o str_int(port(env)) \o "/")
    /\ phase' = "serving"
    /\ UNCHANGED <<listener, pc, request, headers, status, body, exc, outcome,
                   stdout, calls, result>>

\* The module is imported by the host of another listener: the __main__
\* block does not run.
Import ==
    /\ phase = "loaded"
    /\ phase' = "serving"
    /\ UNCHANGED <<listener, my_url, pc, request, headers, status, body, exc,
                   outcome, stdout, calls, result>>

InitialHeaders == <<<<"Content-type", "text/html">>>>

\* headers as one list of the module, shared by the invocations: what
\* another invocation appended is still in it.
ReceiveSharedHeaders(i) ==
    /\ phase = "serving"
    /\ i \in Workers
    /\ pc[i] = "idle"
    /\ \E r \in Served : request' = [request EXCEPT ![i] = r]
    /\ headers' = [headers EXCEPT ![i] =
          IF \E j \in Threads : Len(headers[j]) > 1
          THEN headers[CHOOSE j \in Threads : Len(headers[j]) > 1]
          ELSE InitialHeaders]
    /\ pc' = [pc EXCEPT ![i] = "try"]
    /\ UNCHANGED <<phase, listener, my_url, status, body, exc, outcome, stdout,
                   calls, result>>

\* The listener calls application: headers is a new list.
Receive(i) ==
    /\ phase = "serving"
    /\ i \in Workers
    /\ pc[i] = "idle"
    /\ \E r \in Served : request' = [request EXCEPT ![i] = r]
    /\ headers' = [headers EXCEPT ![i] = InitialHeaders]
    /\ pc' = [pc EXCEPT ![i] = "try"]
    /\ UNCHANGED <<phase, listener, my_url, status, body, exc, outcome, stdout,
                   calls, result>>

\* One except clause for every exception: a division by zero gets the
\* usage page.
HandlerOfBroad(e) ==
    IF e \in {"ZeroDivisionError", "NameError", "AttributeError", "ValueError"}
    THEN "except_usage"
    ELSE "finally_append"

\* The except clause, if any, that takes exception e.
HandlerOf(e) ==
    CASE e = "ZeroDivisionError" -> "except_zero"
      [] e \in {"NameError", "AttributeError", "ValueError"} -> "except_usage"
      [] OTHER -> "finally_append"

\* The body of the try block: [exc, printed, matches, body].
TryResult(r, c) ==
    [exc     |-> IF r.exc /= "none" THEN r.exc ELSE c.exc,
     printed |-> r.matches /= NoGroups,
     matches |-> r.matches,
     body    |-> c.value]

TryCall(r) ==
    TryResult(r, IF r.exc /= "none" THEN Raised(r.exc) ELSE Call(r.func, r.args))

TryBody(path) == TryCall(resolve_path(path))

\* The effect of the try block with outcome t on invocation i.
TryEffect(i, t) ==
    /\ stdout' = [stdout EXCEPT ![i] =
          IF t.printed
          THEN [bound |-> TRUE, path |-> request[i].path.text,
                matches |-> t.matches]
          ELSE NotPrinted]
    /\ exc' = [exc EXCEPT ![i] = t.exc]
    /\ IF t.exc = "none"
       THEN /\ body' = [body EXCEPT ![i] = Bound(t.body)]
            /\ status' = [status EXCEPT ![i] = Bound("200 OK")]
            /\ outcome' = [outcome EXCEPT ![i] = "Resolved"]
            /\ pc' = [pc EXCEPT ![i] = "finally_append"]
       ELSE /\ UNCHANGED <<body, status, outcome>>
            /\ pc' = [pc EXCEPT ![i] = HandlerOf(t.exc)]

TryBlock(i) ==
    /\ pc[i] = "try"
    /\ TryEffect(i, TryBody(request[i].path))
    /\ UNCHANGED <<phase, listener, my_url, request, headers, calls, result>>

ZeroDivisionPage == "<h1>400 Bad Request</h1>" \o "<h2>ZeroDivision Error!</h2>"

ExceptZeroDivisionError(i) ==
    /\ pc[i] = "except_zero"
    /\ status' = [status EXCEPT ![i] = Bound("400 Bad Request")]
    /\ body' = [body EXCEPT ![i] = Bound(ZeroDivisionPage)]
    /\ outcome' = [outcome EXCEPT ![i] = "DivisionByZeroError"]
    /\ exc' = [exc EXCEPT ![i] = "none"]
    /\ pc' = [pc EXCEPT ![i] = "finally_append"]
    /\ UNCHANGED <<phase, listener, my_url, request, headers, stdout, calls,
                   result>>

\* The body as it stands when my_url is first read.
UsageHead ==
    "<h1>Web Calc 2000</h1>"
    \o "</p>To calculate a value, enter a URL in the format:"

UsagePage(url) ==
    UsageHead
    \o "</p>" \o url \o "action/value1/value2"
    \o "</p>Where action can be one of the following:"
    \o "<ul>"
    \o "<li>add</li>"
    \o "<li>subtract</li>"
    \o "<li>multiply</li>"
    \o "<li>divide</li>"
    \o "</ul>"
    \o "</p>Example:"
    \o "</p>" \o url \o "add/3/2"
    \o "</p>Will result in the browser returning '5'"

\* The usage clause.  With my_url unbound its first read raises NameError
\* inside the clause, which leaves body as far as it was built.
ExceptUsage(i) ==
    /\ pc[i] = "except_usage"
    /\ status' = [status EXCEPT ![i] = Bound("200 OK")]
    /\ outcome' = [outcome EXCEPT ![i] = "MalformedError"]
    /\ IF my_url.bound
       THEN /\ body' = [body EXCEPT ![i] = Bound(UsagePage(my_url.text))]
            /\ exc' = [exc EXCEPT ![i] = "none"]
       ELSE /\ body' = [body EXCEPT ![i] = Bound(UsageHead)]
            /\ exc' = [exc EXCEPT ![i] = "NameError"]
    /\ pc' = [pc EXCEPT ![i] = "finally_append"]
    /\ UNCHANGED <<phase, listener, my_url, request, headers, stdout, calls,
                   result>>

\* The length of repr(body), quotes included, in place of that of body.
ContentLengthOfRepr(b) == <<"Content-length", str_int(Len(b) + 2)>>

ContentLength(b) == <<"Content-length", str_int(Len(b))>>

\* finally, first statement.  An unbound body raises UnboundLocalError,
\* which leaves application.
FinallyAppend(i) ==
    /\ pc[i] = "finally_append"
    /\ IF body[i].bound
       THEN /\ headers' = [headers EXCEPT ![i] =
                               Append(@, ContentLength(body[i].text))]
            /\ pc' = [pc EXCEPT ![i] = "finally_start_response"]
            /\ UNCHANGED exc
       ELSE /\ exc' = [exc EXCEPT ![i] = "UnboundLocalError"]
            /\ pc' = [pc EXCEPT ![i] = "raised"]
            /\ UNCHANGED headers
    /\ UNCHANGED <<phase, listener, my_url, request, status, body, outcome,
                   stdout, calls, result>>

\* finally, second statement.
FinallyStartResponse(i) ==
    /\ pc[i] = "finally_start_response"
    /\ IF status[i].bound
       THEN /\ calls' = [calls EXCEPT ![i] =
                  Append(@, [status |-> status[i].text, headers |-> headers[i]])]
            /\ pc' = [pc EXCEPT ![i] = "finally_return"]
            /\ UNCHANGED exc
       ELSE /\ exc' = [exc EXCEPT ![i] = "UnboundLocalError"]
            /\ pc' = [pc EXCEPT ![i] = "raised"]
            /\ UNCHANGED calls
    /\ UNCHANGED <<phase, listener, my_url, request, headers, status, body,
                   outcome, stdout, result>>

\* The return placed after the try statement instead of inside finally:
\* an exception in flight leaves application.
FinallyReturnPropagates(i) ==
    /\ pc[i] = "finally_return"
    /\ IF exc[i] = "none"
       THEN /\ result' = [result EXCEPT ![i] =
                   [bound |-> TRUE, chunks |-> <<encode_utf8(body[i].text)>>]]
            /\ pc' = [pc EXCEPT ![i] = "returned"]
       ELSE /\ pc' = [pc EXCEPT ![i] = "raised"]
            /\ UNCHANGED result
    /\ UNCHANGED <<phase, listener, my_url, request, headers, status, body, exc,
                   outcome, stdout, calls>>

\* finally, the return: it discards an exception in flight.
FinallyReturn(i) ==
    /\ pc[i] = "finally_return"
    /\ result' = [result EXCEPT ![i] =
                     [bound |-> TRUE, chunks |-> <<encode_utf8(body[i].text)>>]]
    /\ exc' = [exc EXCEPT ![i] = "none"]
    /\ pc' = [pc EXCEPT ![i] = "returned"]
    /\ UNCHANGED <<phase, listener, my_url, request, headers, status, body,
                   outcome, stdout, calls>>

\* The listener has sent the response: the frame of the call and what the
\* listener held of it are gone.
Release(i) ==
    /\ pc[i] = "returned"
    /\ pc' = [pc EXCEPT ![i] = "idle"]
    /\ request' = [request EXCEPT ![i] = Raw(Unbound)]
    /\ headers' = [headers EXCEPT ![i] = <<>>]
    /\ status' = [status EXCEPT ![i] = Unbound]
    /\ body' = [body EXCEPT ![i] = Unbound]
    /\ exc' = [exc EXCEPT ![i] = "none"]
    /\ outcome' = [outcome EXCEPT ![i] = "none"]
    /\ stdout' = [stdout EXCEPT ![i] = NotPrinted]
    /\ calls' = [calls EXCEPT ![i] = <<>>]
    /\ result' = [result EXCEPT ![i] = NotReturned]
    /\ UNCHANGED <<phase, listener, my_url>>

Next ==
    \/ \E env \in PortEnv : Main(env)
    \/ Import
    \/ \E i \in Threads : Receive(i)
    \/ \E i \in Threads : TryBlock(i)
    \/ \E i \in Threads : ExceptZeroDivisionError(i)
    \/ \E i \in Threads : ExceptUsage(i)
    \/ \E i \in Threads : FinallyAppend(i)
    \/ \E i \in Threads : FinallyStartResponse(i)
    \/ \E i \in Threads : FinallyReturn(i)
    \/ \E i \in Threads : Release(i)

Spec == Init /\ [][Next]_vars

SpecThreaded == InitThreaded /\ [][Next]_vars

-----------------------------------------------------------------------------
(* What the properties are stated with *)

Done(i) == pc[i] = "returned"

\* The status and the headers start_response was called with, and the
\* body that was returned, of an invocation that has returned.
SentStatus(i) == calls[i][1].status

SentHeaders(i) == calls[i][1].headers

SentBody(i) == result[i].chunks[1]

Evaluated(i) == outcome[i] \in {"Resolved", "DivisionByZeroError"}

\* A signed decimal: an optional sign, then digits, or digits (possibly
\* none), a point and at least one digit.
ValidDecimalUnsigned(u) ==
    \/ Len(u) >= 1 /\ AllDigits(u)
    \/ \E d \in 1..(Len(u) - 1) :
          /\ At(u, d) = "."
          /\ AllDigits(SubSeq(u, 1, d - 1))
          /\ AllDigits(SubSeq(u, d + 1, Len(u)))

ValidDecimal(s) ==
    IF s /= "" /\ Head(s) \in {"+", "-"} THEN ValidDecimalUnsigned(Tail(s))
    ELSE ValidDecimalUnsigned(s)

\* The arithmetic result of op on two floats.
Arith(op, a, b) ==
    CASE op = "add"      -> FloatAdd(a, b)
      [] op = "subtract" -> FloatSub(a, b)
      [] op = "multiply" -> FloatMul(a, b)
      [] op = "divide"   -> FloatDiv(a, b)

ParsesToZero(s) == float(s).exc = "none" /\ IsZero(float(s).val)

\* A request of the form op/v1/v2 after some prefix: a known operation
\* and two signed decimals, nothing behind them.
WellFormed(r) ==
    /\ r.shaped
    /\ r.op \in Ops
    /\ ValidDecimal(r.v1)
    /\ ValidDecimal(r.v2)
    /\ r.trail = ""

\* The positions of the slashes of s, and the segment of s before its
\* last two segments: the text between the third and the second slash from
\* the end (from the start of s when s has two slashes only).
Slashes(s) == {k \in 1..Len(s) : At(s, k) = "/"}

SlashesFrom(s, k) == {j \in Slashes(s) : j >= k}

OperationSegment(s) ==
    IF Cardinality(Slashes(s)) < 2 THEN ""
    ELSE LET l2 == CHOOSE k \in Slashes(s) : Cardinality(SlashesFrom(s, k)) = 2
             before == {k \in Slashes(s) : k < l2}
             l3 == IF before = {} THEN 0
                   ELSE CHOOSE k \in before : \A h \in before : h <= k
         IN  SubSeq(s, l3 + 1, l2 - 1)

EndsWithOperation(seg) == \E op \in Ops : EndsWith(seg, op)

CountHeader(hs, name) == Cardinality({k \in DOMAIN hs : hs[k][1] = name})

-----------------------------------------------------------------------------
(* C1 *)

PlainExpected(r) == out_format(Arith(r.op, float(r.v1).val, float(r.v2).val))

PlainComputable(r) ==
    /\ WellFormed(r)
    /\ r.prefix = "/"
    /\ ~(r.op = "divide" /\ ParsesToZero(r.v2))

AnswersWith(i, path, text) ==
    request[i].path = Bound(path) =>
        SentStatus(i) = "200 OK" /\ SentBody(i) = encode_utf8(text)

\* C1: a request /op/v1/v2 with a known operation and two signed decimals,
\* other than a division by zero, is answered with status 200 OK and the
\* body out_format(v1 op v2), the operands in the order given; so
\* /add/23/42 gives 65, /subtract/23/42 gives -19, /multiply/3/5 gives 15
\* and /divide/22/11 gives 2.
C1_PlainRequestsCompute ==
    \A i \in Threads :
        Done(i) =>
            /\ PlainComputable(request[i]) =>
                  /\ SentStatus(i) = "200 OK"
                  /\ SentBody(i) = encode_utf8(PlainExpected(request[i]))
            /\ AnswersWith(i, "/add/23/42", "65")
            /\ AnswersWith(i, "/subtract/23/42", "-19")
            /\ AnswersWith(i, "/multiply/3/5", "15")
            /\ AnswersWith(i, "/divide/22/11", "2")

C1_Witness ==
    \E i \in Threads :
        /\ Done(i)
        /\ request[i].path = Bound("/subtract/23/42")
        /\ SentStatus(i) = "200 OK"
        /\ body[i].text = "-19"

-----------------------------------------------------------------------------
(* C2 *)

\* The path was resolved to a division whose second operand is zero: the
\* groups the resolver decoded and printed.
ResolvedToDivideByZero(i) ==
    /\ stdout[i].bound
    /\ stdout[i].matches[1] = "divide"
    /\ float(stdout[i].matches[2]).exc = "none"
    /\ ParsesToZero(stdout[i].matches[3])

\* C2: the status is 400 Bad Request exactly when the path resolves to a
\* division by an operand that parses to zero; the body is then the fixed
\* page with "400 Bad Request" and "ZeroDivision Error!"; no add, subtract
\* or multiply request and no malformed request is answered with 400.
C2_BadRequestIffDivideByZero ==
    \A i \in Threads :
        Done(i) =>
            /\ (SentStatus(i) = "400 Bad Request") = ResolvedToDivideByZero(i)
            /\ SentStatus(i) = "400 Bad Request" =>
                  /\ SentBody(i) = encode_utf8(
                        "<h1>400 Bad Request</h1><h2>ZeroDivision Error!</h2>")
                  /\ outcome[i] = "DivisionByZeroError"
            /\ request[i].shaped /\ request[i].op \in {"add", "subtract", "multiply"}
                  => SentStatus(i) /= "400 Bad Request"
            /\ outcome[i] = "MalformedError" => SentStatus(i) /= "400 Bad Request"

C2_Witness ==
    \E i \in Threads :
        /\ Done(i)
        /\ request[i].path = Bound("/divide/5/.0")
        /\ SentStatus(i) = "400 Bad Request"

-----------------------------------------------------------------------------
(* C3 *)

\* The malformed requests: the root path, a path that is not
\* operation/num/num, a path with an operand that is no number, and a
\* path with an operand that has no digit.
MalformedRequest(r) ==
    \/ r.path \in {Bound("/"), Bound("/foobar"), Bound("/add/onlyone"),
                   Bound("/add/foo/3")}
    \/ /\ r.shaped /\ r.op \in Ops /\ r.trail = ""
       /\ {r.v1, r.v2} \cap {"", "+", "foo"} /= {}

IsUsagePage(text) ==
    /\ my_url.bound
    /\ Contains(text, my_url.text \o "action/value1/value2")
    /\ Contains(text, "<li>add</li>")
    /\ Contains(text, "<li>subtract</li>")
    /\ Contains(text, "<li>multiply</li>")
    /\ Contains(text, "<li>divide</li>")
    /\ Contains(text, my_url.text \o "add/3/2")

\* C3: every malformed request is answered with status 200 OK and the
\* usage page, which holds the base URL, the shape action/value1/value2,
\* the four operation names and the example add/3/2.
C3_MalformedGetsUsagePage ==
    \A i \in Threads :
        Done(i) /\ MalformedRequest(request[i]) =>
            /\ SentStatus(i) = "200 OK"
            /\ IsUsagePage(body[i].text)
            /\ SentBody(i) = encode_utf8(body[i].text)

-----------------------------------------------------------------------------
(* C4 *)

\* The formatting law: a rendering that ends in ".0" loses these two
\* characters, any other rendering is kept as it is.
FormatLaw(rendering) ==
    IF EndsWith(rendering, ".0")
    THEN SubSeq(rendering, 1, Len(rendering) - 2)
    ELSE rendering

Rendering(m) == str_float(Arith(m[1], float(m[2]).val, float(m[3]).val))

\* C4: the body of a computed result is the default rendering of the
\* result without a final ".0", and the rendering unchanged when it does
\* not end in ".0".
C4_FormattingLaw ==
    \A i \in Threads :
        Done(i) /\ outcome[i] = "Resolved" =>
            body[i].text = FormatLaw(Rendering(stdout[i].matches))

-----------------------------------------------------------------------------
(* C5 *)

\* C5: no exception leaves application; start_response is called once,
\* with 200 OK or 400 Bad Request, after Content-length was appended and
\* before the body is returned; an invocation that has returned ended in
\* one of Resolved, DivisionByZeroError and MalformedError.
C5_NoRequestIsFatal ==
    \A i \in Threads :
        /\ pc[i] /= "raised"
        /\ Len(calls[i]) <= 1
        /\ Len(calls[i]) = 1 =>
              /\ SentStatus(i) \in {"200 OK", "400 Bad Request"}
              /\ CountHeader(SentHeaders(i), "Content-length") = 1
        /\ result[i].bound => Len(calls[i]) = 1
        /\ Done(i) =>
              /\ result[i].bound
              /\ exc[i] = "none"
              /\ outcome[i] \in {"Resolved", "DivisionByZeroError", "MalformedError"}

C5_Witness ==
    \E i \in Threads :
        /\ Done(i)
        /\ ~request[i].path.bound
        /\ ~my_url.bound
        /\ outcome[i] = "MalformedError"
        /\ Len(calls[i]) = 1

-----------------------------------------------------------------------------
(* C6 *)

\* C6: the headers given to start_response hold one Content-type header,
\* text/html, and one Content-length header, whose value is the number of
\* bytes of the body that is returned.
C6_HeadersAreAccurate ==
    \A i \in Threads :
        Done(i) =>
            /\ CountHeader(SentHeaders(i), "Content-type") = 1
            /\ CountHeader(SentHeaders(i), "Content-length") = 1
            /\ Len(SentHeaders(i)) = 2
            /\ <<"Content-type", "text/html">> \in
                  {SentHeaders(i)[k] : k \in DOMAIN SentHeaders(i)}
            /\ <<"Content-length", str_int(Len(SentBody(i)))>> \in
                  {SentHeaders(i)[k] : k \in DOMAIN SentHeaders(i)}
            /\ Len(result[i].chunks) = 1

C6_Witness ==
    \E i \in Threads :
        /\ Done(i)
        /\ outcome[i] = "DivisionByZeroError"
        /\ SentHeaders(i)[2] = <<"Content-length", "52">>
        /\ Len(SentBody(i)) = 52

-----------------------------------------------------------------------------
(* C7 *)

SameResponseForSamePath ==
    \A i \in Threads, j \in Threads :
        Done(i) /\ Done(j) /\ request[i].path = request[j].path =>
            /\ calls[i] = calls[j]
            /\ result[i] = result[j]
            /\ Len(SentHeaders(i)) = 2

\* A step in which invocation i moves leaves the locals of every other
\* invocation as they are.
OthersUntouched ==
    \A i \in Threads :
        pc'[i] /= pc[i] =>
            \A j \in Threads \ {i} :
                /\ pc'[j] = pc[j]
                /\ headers'[j] = headers[j]
                /\ status'[j] = status[j]
                /\ body'[j] = body[j]
                /\ calls'[j] = calls[j]
                /\ result'[j] = result[j]

\* C7: the response is a function of the path: two invocations that have
\* returned for the same path, run one after the other or side by side
\* with any others, were given the same status and headers and returned
\* the same body; once requests are served my_url is not written, and no
\* invocation writes the headers or any other local of another.
C7_ResponseIsAFunctionOfThePath ==
    /\ []SameResponseForSamePath
    /\ [][phase = "serving" => my_url' = my_url]_vars
    /\ [][OthersUntouched]_vars

C7_Witness ==
    \E i \in Threads, j \in Threads :
        /\ i /= j
        /\ Done(i) /\ Done(j)
        /\ request[i].path = request[j].path
        /\ request[i].path = Bound("/foo/divide/5/-2")
        /\ body[j].text = "-2.5"

-----------------------------------------------------------------------------
(* C8 *)

PlainPath(r) == Bound("/" \o r.op \o "/" \o r.v1 \o "/" \o r.v2)

\* Invocation i ended as the try block with outcome t ends.
EndedAs(i, t) ==
    CASE t.exc = "none" ->
             /\ outcome[i] = "Resolved"
             /\ SentStatus(i) = "200 OK"
             /\ SentBody(i) = encode_utf8(t.body)
      [] t.exc = "ZeroDivisionError" ->
             /\ outcome[i] = "DivisionByZeroError"
             /\ SentStatus(i) = "400 Bad Request"
             /\ SentBody(i) = encode_utf8(ZeroDivisionPage)
      [] OTHER -> FALSE

\* C8: whatever precedes op/v1/v2 (a known operation, two signed
\* decimals), the path resolves to op, v1 and v2 and is answered with the
\* status and body of /op/v1/v2.
C8_PrefixIsIgnored ==
    \A i \in Threads :
        Done(i) /\ WellFormed(request[i]) =>
            /\ stdout[i].bound
            /\ stdout[i].matches =
                  <<request[i].op, request[i].v1, request[i].v2>>
            /\ EndedAs(i, TryBody(PlainPath(request[i])))

C8_Witness ==
    \E i \in Threads :
        /\ Done(i)
        /\ request[i].path = Bound("/foo/add/5/-2")
        /\ request[i].prefix = "/foo/"
        /\ outcome[i] = "Resolved"
        /\ body[i].text = "3"

-----------------------------------------------------------------------------
(* C9 *)

\* C9: a path with one or more characters behind the second operand is
\* answered as Malformed.
C9_NothingFollowsTheSecondOperand ==
    \A i \in Threads :
        Done(i) /\ request[i].shaped /\ request[i].trail /= "" =>
            outcome[i] = "MalformedError"

-----------------------------------------------------------------------------
(* C10 *)

\* C10 as claimed: a request is evaluated only when the path segment
\* before the two operand segments is one of the four operation names, and
\* is Malformed when that segment is anything else.
C10_SegmentIsAnOperationName ==
    \A i \in Threads :
        Done(i) /\ request[i].path.bound =>
            /\ Evaluated(i) => OperationSegment(request[i].path.text) \in Ops
            /\ OperationSegment(request[i].path.text) \notin Ops =>
                  outcome[i] = "MalformedError"

\* C10 as amended: a request is evaluated only when the path segment
\* before the two operand segments ends with one of the four operation
\* names, in lower case, which is then the operation; when the segment
\* does not end with one of them the request is Malformed; the lookup
\* never yields a missing function that is then called.
C10_SegmentEndsWithAnOperationName ==
    \A i \in Threads :
        /\ exc[i] /= "TypeError"
        /\ pc[i] /= "raised"
        /\ Done(i) /\ Evaluated(i) =>
              /\ request[i].path.bound
              /\ stdout[i].matches[1] \in Ops
              /\ EndsWith(OperationSegment(request[i].path.text),
                          stdout[i].matches[1])
        /\ Done(i) /\ request[i].path.bound
              /\ ~EndsWithOperation(OperationSegment(request[i].path.text)) =>
              /\ outcome[i] = "MalformedError"
              /\ SentStatus(i) = "200 OK"

C10_Witness ==
    \E i \in Threads :
        /\ Done(i)
        /\ request[i].path = Bound("/xadd/5/-2")
        /\ OperationSegment(request[i].path.text) = "xadd"
        /\ outcome[i] = "Resolved"
        /\ body[i].text = "3"

=============================================================================
